---- MODULE Spec2Model ----
(***************************************************************************)
(* hpa-exporter: the metrics poll loop (fetch, reset, project, sleep), the *)
(* condition log-shipment loop (fetch, ship to CloudWatch Logs or stdout,  *)
(* sleep) and the startup sequence of main(), with the pure projection     *)
(* helpers of package metrics.                                             *)
(*                                                                         *)
(* Gauge values are float64 in the program; here every gauge value is an   *)
(* integer number of milli-units (1.0 is 1000), so float64(m)/1000 of a    *)
(* quantity of m milli-units is m and float64(n) of an integer n is        *)
(* n * 1000.  An optional (pointer) field is <<>> when nil and <<v>> when  *)
(* it points to v.                                                         *)
(***************************************************************************)
EXTENDS Integers, Sequences, FiniteSets, TLC

VARIABLES
    flags,        \* the parsed command-line flags (ConditionLogging, LoggingTo)
    mainpc,       \* position of main(): validate, checkgroup, spawn, serve, panicked
    registry,     \* gauge name -> (label set -> value): the ten GaugeVecs
    mpc,          \* metrics loop position: off, fetch, reset, project, sleep
    mhpa,         \* metrics loop: the list returned by its last successful fetch
    mi,           \* metrics loop: index of the next snapshot to project
    mAttempts,    \* metrics loop: fetch attempts since its last sleep
    mErrLines,    \* metrics loop: log.Errorln lines since its last sleep, in order
    mseen,        \* names of the autoscalers the metrics loop has projected so far
    lpc,          \* log loop position: off, fetch, describe, create, put, stdout, sleep
    lhpa,         \* log loop: the list returned by its last successful fetch
    lAttempts,    \* log loop: fetch attempts since its last sleep
    lErrLines,    \* log loop: log.Errorln lines since its last sleep, in order
    tok,          \* the local t of PutHPAConditionToCWLog (optional token)
    shipRet,      \* what the last PutHPAConditionToCWLog call returned ("nil" or an error)
    callOps,      \* the log-store requests issued by the current/last ship call, in order
    stdoutLines,  \* the condition lines written to stdout in the current/last cycle
    groups,       \* the log store: names of the existing log groups
    streams,      \* the log store: existing stream name -> its upload sequence token
    nCreated,     \* the log store: successful CreateLogStream calls of the configured stream
    groupOps,     \* the log-group requests issued so far, in order
    cond, labelForward, labelReverse, cpc,
                  \* one application of MakeAnnotationCondLabels: input, outputs, position
    entry, specRecord, statusRecord, ppc
                  \* one application of the extractors to a target entry and the matching
                  \* status entry: inputs, the two commonMetrics records, position

vars == <<flags, mainpc, registry, mpc, mhpa, mi, mAttempts, mErrLines, mseen,
          lpc, lhpa, lAttempts, lErrLines, tok, shipRet, callOps, stdoutLines,
          groups, streams, nCreated, groupOps, cond, labelForward, labelReverse, cpc,
          entry, specRecord, statusRecord, ppc>>

mvars == <<registry, mpc, mhpa, mi, mAttempts, mErrLines, mseen>>
lvars == <<lpc, lhpa, lAttempts, lErrLines, tok, shipRet, callOps, stdoutLines>>
storevars == <<groups, streams, nCreated>>
pvars == <<entry, specRecord, statusRecord, ppc>>
cvars == <<cond, labelForward, labelReverse, cpc, pvars>>

----------------------------------------------------------------------------
(* Bounds of the model. *)

MaxHpas == 2        \* longest autoscaler list a fetch returns
MaxConds == 2       \* longest condition list of a snapshot
MaxBurst == 2       \* failed fetches explored between two sleeps of a loop
MaxToken == 2       \* highest sequence number a stream's token reaches
MaxMetrics == 2     \* longest metric list of a snapshot

Nil == <<>>
Some(v) == <<v>>

(* float64(n) of an integer, and float64(q.MilliValue()) / 1000, in milli-units *)
Float(n) == n * 1000
FromMilli(m) == m

Deref(p) == p[1]

----------------------------------------------------------------------------
(* The gauge collections and their label schemas. *)

HpaCurrentPodsNum == "hpa_current_pods_num"
HpaDesiredPodsNum == "hpa_desired_pods_num"
HpaMinPodsNum == "hpa_min_pods_num"
HpaMaxPodsNum == "hpa_max_pods_num"
HpaLastScaleSecond == "hpa_last_scale_second"
HpaCurrentMetricsValue == "hpa_current_metrics_value"
HpaTargetMetricsValue == "hpa_target_metrics_value"
HpaAbleToScale == "hpa_able_to_scale"
HpaScalingActive == "hpa_scaling_active"
HpaScalingLimited == "hpa_scaling_limited"

baseLabels == {"hpa_name", "hpa_namespace", "ref_kind", "ref_name", "ref_apiversion"}
metricLabels == {"metric_kind", "metric_name", "metric_metricname"}
annoLabels == {"cond_status", "cond_reason", "cond_message"}

collectors ==
    {HpaCurrentPodsNum, HpaDesiredPodsNum, HpaMinPodsNum, HpaMaxPodsNum,
     HpaLastScaleSecond, HpaCurrentMetricsValue, HpaTargetMetricsValue,
     HpaAbleToScale, HpaScalingActive, HpaScalingLimited}

(* the variable labels each GaugeVec was declared with *)
GaugeLabelNames(g) ==
    IF g \in {HpaCurrentMetricsValue, HpaTargetMetricsValue}
    THEN baseLabels \cup metricLabels
    ELSE IF g \in {HpaAbleToScale, HpaScalingActive, HpaScalingLimited}
         THEN baseLabels \cup annoLabels
         ELSE baseLabels

EmptyVec == [l \in {} |-> 0]
EmptyRegistry == [g \in collectors |-> EmptyVec]

(* mutant: the series are kept and their values set to zero *)
ResetAllMetric_zeroesValues(reg) ==
    [g \in DOMAIN reg |-> [l \in DOMAIN reg[g] |-> 0]]

(* mutant: the condition gauges are left out of the reset *)
ResetAllMetric_skipsConditionGauges(reg) ==
    [g \in DOMAIN reg |->
        IF g \in {HpaAbleToScale, HpaScalingActive, HpaScalingLimited} THEN reg[g] ELSE EmptyVec]

(* ResetAllMetric: GaugeVec.Reset() on every collector *)
ResetAllMetric(reg) == [g \in DOMAIN reg |-> EmptyVec]

(* GaugeVec.With(labels).Set(v): create or overwrite the series of that label set *)
GaugeSet(vec, labels, v) ==
    [l \in DOMAIN vec \cup {labels} |-> IF l = labels THEN v ELSE vec[l]]

(* With panics unless the label names are exactly the declared ones *)
WithOK(o) == DOMAIN o.labels = GaugeLabelNames(o.gauge)

Observe(reg, o) == [reg EXCEPT ![o.gauge] = GaugeSet(@, o.labels, o.value)]

RECURSIVE ObserveAll(_, _)
ObserveAll(reg, obs) ==
    IF obs = <<>> THEN reg ELSE ObserveAll(Observe(reg, Head(obs)), Tail(obs))

Obs(g, l, v) == [gauge |-> g, labels |-> l, value |-> v]

(* mutant: the result holds the second map only *)
MergeLabels_secondOnly(m1, m2) == m2

MergeLabels(m1, m2) ==
    [k \in DOMAIN m1 \cup DOMAIN m2 |-> IF k \in DOMAIN m2 THEN m2[k] ELSE m1[k]]

----------------------------------------------------------------------------
(* Conditions. *)

ConditionTrue == "True"
ConditionFalse == "False"
ConditionUnknown == "Unknown"
AbleToScale == "AbleToScale"
ScalingActive == "ScalingActive"
ScalingLimited == "ScalingLimited"

(* mutant: the reverse status is computed from a comparison with False *)
MakeAnnotationCondLabels_comparesFalse(c) ==
    <<[cond_status |-> c.Status, cond_reason |-> c.Reason, cond_message |-> c.Message],
      [cond_status |-> IF c.Status = ConditionFalse THEN ConditionTrue ELSE ConditionFalse,
       cond_reason |-> "", cond_message |-> ""]>>

MakeAnnotationCondLabels(c) ==
    LET fwd == [cond_status |-> c.Status,
                cond_reason |-> c.Reason,
                cond_message |-> c.Message]
        statusReverse == IF c.Status = ConditionTrue THEN ConditionFalse
                         ELSE ConditionTrue
        rev == [cond_status |-> statusReverse,
                cond_reason |-> "",
                cond_message |-> ""]
    IN  <<fwd, rev>>

----------------------------------------------------------------------------
(* Metric extractors: one commonMetrics record per metric-source variant. *)

ObjectMetricSourceType == "Object"
PodsMetricSourceType == "Pods"
ResourceMetricSourceType == "Resource"
ExternalMetricSourceType == "External"

commonMetrics(k, n, mn, v) == [Kind |-> k, Name |-> n, MetricName |-> mn, Value |-> v]

ParseObjectSpec(m) ==
    commonMetrics(m.Target.Kind, m.Target.Name, m.MetricName, FromMilli(m.TargetValue))

ParsePodsSpec(m) ==
    commonMetrics("Pod", "-", m.MetricName, FromMilli(m.TargetAverageValue))

(* mutant: the utilization percentage is scaled like a quantity *)
ParseResourceSpec_scalesUtilization(m) ==
    LET t == IF m.TargetAverageUtilization = Nil
             THEN FromMilli(Deref(m.TargetAverageValue))
             ELSE FromMilli(Deref(m.TargetAverageUtilization))
    IN  commonMetrics("Resource", m.Name, "-", t)

ParseResourceSpec(m) ==
    LET t == IF m.TargetAverageUtilization = Nil
             THEN FromMilli(Deref(m.TargetAverageValue))
             ELSE Float(Deref(m.TargetAverageUtilization))
    IN  commonMetrics("Resource", m.Name, "-", t)

ParseExternalSpec(m) ==
    LET t == IF m.TargetAverageValue = Nil
             THEN FromMilli(Deref(m.TargetValue))
             ELSE FromMilli(Deref(m.TargetAverageValue))
    IN  commonMetrics("External", "-", m.MetricName, t)

ParseObjectStatus(m) ==
    commonMetrics(m.Target.Kind, m.Target.Name, m.MetricName, FromMilli(m.CurrentValue))

ParsePodsStatus(m) ==
    commonMetrics("Pod", "-", m.MetricName, FromMilli(m.CurrentAverageValue))

ParseResourceStatus(m) ==
    LET t == IF m.CurrentAverageUtilization = Nil
             THEN FromMilli(m.CurrentAverageValue)
             ELSE Float(Deref(m.CurrentAverageUtilization))
    IN  commonMetrics("Resource", m.Name, "-", t)

(* mutant: the plain current value is taken even when an average value is present *)
ParseExternalStatus_prefersCurrentValue(m) ==
    commonMetrics("External", "-", m.MetricName, FromMilli(m.CurrentValue))

ParseExternalStatus(m) ==
    LET t == IF m.CurrentAverageValue = Nil
             THEN FromMilli(m.CurrentValue)
             ELSE FromMilli(Deref(m.CurrentAverageValue))
    IN  commonMetrics("External", "-", m.MetricName, t)

(* ParseCommonMetrics: the value and the three metric labels *)
ParseCommonMetrics(m) ==
    <<m.Value, [metric_kind |-> m.Kind,
                metric_name |-> m.Name,
                metric_metricname |-> m.MetricName]>>

----------------------------------------------------------------------------
(* The body of the poll loop for one snapshot a: the observations it makes, *)
(* in program order.                                                        *)

BaseLabel(a) ==
    [hpa_name |-> a.Name,
     hpa_namespace |-> a.Namespace,
     ref_kind |-> a.ScaleTargetRef.Kind,
     ref_name |-> a.ScaleTargetRef.Name,
     ref_apiversion |-> a.ScaleTargetRef.APIVersion]

(* mutant: a nil MinReplicas is observed as zero *)
ReplicaObs_zeroForNilMin(a) ==
    LET b == BaseLabel(a)
    IN  <<Obs(HpaCurrentPodsNum, b, Float(a.CurrentReplicas)),
          Obs(HpaDesiredPodsNum, b, Float(a.DesiredReplicas)),
          Obs(HpaMinPodsNum, b, IF a.MinReplicas # Nil THEN Float(Deref(a.MinReplicas)) ELSE Float(0)),
          Obs(HpaMaxPodsNum, b, Float(a.MaxReplicas))>>
        \o (IF a.LastScaleTime # Nil
            THEN <<Obs(HpaLastScaleSecond, b, Float(Deref(a.LastScaleTime)))>> ELSE <<>>)

ReplicaObs(a) ==
    LET b == BaseLabel(a)
    IN  <<Obs(HpaCurrentPodsNum, b, Float(a.CurrentReplicas)),
          Obs(HpaDesiredPodsNum, b, Float(a.DesiredReplicas))>>
        \o (IF a.MinReplicas # Nil
            THEN <<Obs(HpaMinPodsNum, b, Float(Deref(a.MinReplicas)))>> ELSE <<>>)
        \o <<Obs(HpaMaxPodsNum, b, Float(a.MaxReplicas))>>
        \o (IF a.LastScaleTime # Nil
            THEN <<Obs(HpaLastScaleSecond, b, Float(Deref(a.LastScaleTime)))>> ELSE <<>>)

MetricObs(g, b, m) ==
    LET vl == ParseCommonMetrics(m)
    IN  <<Obs(g, MergeLabels(b, vl[2]), vl[1])>>

TargetMetricObs(b, metric) ==
    CASE metric.Type = ObjectMetricSourceType ->
             MetricObs(HpaTargetMetricsValue, b, ParseObjectSpec(metric.Object))
      [] metric.Type = PodsMetricSourceType ->
             MetricObs(HpaTargetMetricsValue, b, ParsePodsSpec(metric.Pods))
      [] metric.Type = ResourceMetricSourceType ->
             MetricObs(HpaTargetMetricsValue, b, ParseResourceSpec(metric.Resource))
      [] metric.Type = ExternalMetricSourceType ->
             MetricObs(HpaTargetMetricsValue, b, ParseExternalSpec(metric.External))
      [] OTHER -> <<>>

CurrentMetricObs(b, metric) ==
    CASE metric.Type = ObjectMetricSourceType ->
             MetricObs(HpaCurrentMetricsValue, b, ParseObjectStatus(metric.Object))
      [] metric.Type = PodsMetricSourceType ->
             MetricObs(HpaCurrentMetricsValue, b, ParsePodsStatus(metric.Pods))
      [] metric.Type = ResourceMetricSourceType ->
             MetricObs(HpaCurrentMetricsValue, b, ParseResourceStatus(metric.Resource))
      [] metric.Type = ExternalMetricSourceType ->
             MetricObs(HpaCurrentMetricsValue, b, ParseExternalStatus(metric.External))
      [] OTHER -> <<>>

(* mutant: the reverse label set is set to 1 as well *)
CondObs_bothOne(b, c) ==
    LET anno == MakeAnnotationCondLabels(c)
        two(g) == <<Obs(g, MergeLabels(b, anno[1]), Float(1)),
                    Obs(g, MergeLabels(b, anno[2]), Float(1))>>
    IN  CASE c.Type = AbleToScale -> two(HpaAbleToScale)
          [] c.Type = ScalingActive -> two(HpaScalingActive)
          [] c.Type = ScalingLimited -> two(HpaScalingLimited)
          [] OTHER -> <<>>

CondObs(b, c) ==
    LET anno == MakeAnnotationCondLabels(c)
        two(g) == <<Obs(g, MergeLabels(b, anno[1]), Float(1)),
                    Obs(g, MergeLabels(b, anno[2]), Float(0))>>
    IN  CASE c.Type = AbleToScale -> two(HpaAbleToScale)
          [] c.Type = ScalingActive -> two(HpaScalingActive)
          [] c.Type = ScalingLimited -> two(HpaScalingLimited)
          [] OTHER -> <<>>

RECURSIVE Concat(_)
Concat(ss) == IF ss = <<>> THEN <<>> ELSE Head(ss) \o Concat(Tail(ss))

KnownMetricTypes ==
    {ObjectMetricSourceType, PodsMetricSourceType,
     ResourceMetricSourceType, ExternalMetricSourceType}

(* mutant: a target entry of an unknown kind ends the whole iteration *)
SnapshotObs_returnsAtUnknown(a) ==
    LET b == BaseLabel(a)
        bad == {i \in 1..Len(a.Metrics) : a.Metrics[i].Type \notin KnownMetricTypes}
        k == CHOOSE i \in bad : \A j \in bad : i <= j
    IN  IF bad = {}
        THEN ReplicaObs(a)
             \o Concat([i \in 1..Len(a.Metrics) |-> TargetMetricObs(b, a.Metrics[i])])
             \o Concat([i \in 1..Len(a.CurrentMetrics) |->
                           CurrentMetricObs(b, a.CurrentMetrics[i])])
             \o Concat([i \in 1..Len(a.Conditions) |-> CondObs(b, a.Conditions[i])])
        ELSE ReplicaObs(a)
             \o Concat([i \in 1..(k - 1) |-> TargetMetricObs(b, a.Metrics[i])])

SnapshotObs(a) ==
    LET b == BaseLabel(a)
    IN  ReplicaObs(a)
        \o Concat([i \in 1..Len(a.Metrics) |-> TargetMetricObs(b, a.Metrics[i])])
        \o Concat([i \in 1..Len(a.CurrentMetrics) |-> CurrentMetricObs(b, a.CurrentMetrics[i])])
        \o Concat([i \in 1..Len(a.Conditions) |-> CondObs(b, a.Conditions[i])])

(* one iteration of `for _, a := range hpa` *)
ProjectSnapshot(reg, a) == ObserveAll(reg, SnapshotObs(a))

(* the observations made before the first With that panics *)
RECURSIVE GoodPrefix(_)
GoodPrefix(obs) ==
    IF obs = <<>> \/ ~WithOK(Head(obs)) THEN <<>>
    ELSE <<Head(obs)>> \o GoodPrefix(Tail(obs))

----------------------------------------------------------------------------
(* What GetHpaListV2 may return: bounded sets of autoscaler snapshots. *)

HpaNames == {"web", "api", "db"}
CondTypes == {AbleToScale, ScalingActive, ScalingLimited, "Other"}
CondStatuses == {ConditionTrue, ConditionFalse, ConditionUnknown}
CondTexts == {<<"", "">>, <<"ReadyForNewScale", "recommended size matches current size">>}

Conds ==
    {[Type |-> t, Status |-> s, Reason |-> rm[1], Message |-> rm[2]] :
        t \in CondTypes, s \in CondStatuses, rm \in CondTexts}

(* the wider universe on which MakeAnnotationCondLabels alone is applied *)
AllConds ==
    [Type : CondTypes, Status : CondStatuses,
     Reason : {"", "ReadyForNewScale", "FailedGetScale"}, Message : {"", "text"}]

SeqsUpTo(S, n) == UNION {[1..k -> S] : k \in 0..n}

ObjectTarget == [Kind |-> "Service", Name |-> "frontend", APIVersion |-> "v1"]

SpecMetricEntries ==
    {[Type |-> ObjectMetricSourceType,
      Object |-> [Target |-> ObjectTarget, MetricName |-> "requests", TargetValue |-> 2500]],
     [Type |-> ResourceMetricSourceType,
      Resource |-> [Name |-> "cpu", TargetAverageUtilization |-> Some(80),
                    TargetAverageValue |-> Nil]]}

StatusMetricEntries ==
    {[Type |-> ObjectMetricSourceType,
      Object |-> [Target |-> ObjectTarget, MetricName |-> "requests", CurrentValue |-> 1500]],
     [Type |-> ResourceMetricSourceType,
      Resource |-> [Name |-> "cpu", CurrentAverageUtilization |-> Some(65),
                    CurrentAverageValue |-> 650]]}

(* A target entry and the status entry of the same metric, with equal underlying *)
(* fields.  As the API server admits them: a Resource target has exactly one of  *)
(* utilization and average value, an External target exactly one of value and    *)
(* average value; a status always carries its plain quantity.                    *)
Quantities == {0, 1500, 2000, 2500}
Percents == {65, 80}
MetricNames == {"requests", "latency"}
ResourceNames == {"cpu", "memory"}

MetricPair(s, c) == [spec |-> s, status |-> c]

ObjectPairs ==
    {MetricPair(
        [Type |-> ObjectMetricSourceType,
         Object |-> [Target |-> ObjectTarget, MetricName |-> n, TargetValue |-> q]],
        [Type |-> ObjectMetricSourceType,
         Object |-> [Target |-> ObjectTarget, MetricName |-> n, CurrentValue |-> q]]) :
        n \in MetricNames, q \in Quantities}

PodsPairs ==
    {MetricPair(
        [Type |-> PodsMetricSourceType,
         Pods |-> [MetricName |-> n, TargetAverageValue |-> q]],
        [Type |-> PodsMetricSourceType,
         Pods |-> [MetricName |-> n, CurrentAverageValue |-> q]]) :
        n \in MetricNames, q \in Quantities}

ResourcePairs ==
    {MetricPair(
        [Type |-> ResourceMetricSourceType,
         Resource |-> [Name |-> n, TargetAverageUtilization |-> u,
                       TargetAverageValue |-> IF u = Nil THEN Some(q) ELSE Nil]],
        [Type |-> ResourceMetricSourceType,
         Resource |-> [Name |-> n, CurrentAverageUtilization |-> u,
                       CurrentAverageValue |-> q]]) :
        n \in ResourceNames, u \in {Nil} \cup {Some(x) : x \in Percents}, q \in Quantities}

ExternalPairs ==
    {MetricPair(
        [Type |-> ExternalMetricSourceType,
         External |-> [MetricName |-> n, TargetAverageValue |-> a,
                       TargetValue |-> IF a = Nil THEN Some(q) ELSE Nil]],
        [Type |-> ExternalMetricSourceType,
         External |-> [MetricName |-> n, CurrentAverageValue |-> a,
                       CurrentValue |-> q]]) :
        n \in MetricNames, a \in {Nil} \cup {Some(x) : x \in Quantities}, q \in Quantities}

MetricPairs == ObjectPairs \cup PodsPairs \cup ResourcePairs \cup ExternalPairs

ResourceTarget == <<CHOOSE e \in SpecMetricEntries : e.Type = ResourceMetricSourceType>>
ObjectCurrent == <<CHOOSE e \in StatusMetricEntries : e.Type = ObjectMetricSourceType>>

Snapshot(n, min, last, ms, cms, cs) ==
    [Name |-> n, Namespace |-> "prod",
     ScaleTargetRef |-> [Kind |-> "Deployment", Name |-> n, APIVersion |-> "apps/v1"],
     CurrentReplicas |-> 3, DesiredReplicas |-> 4, MinReplicas |-> min, MaxReplicas |-> 10,
     LastScaleTime |-> last, Metrics |-> ms, CurrentMetrics |-> cms, Conditions |-> cs]

(* the snapshots of the projection study: one autoscaler, every combination of the *)
(* optional fields and every condition list up to MaxConds                          *)
RichSnapshots ==
    {Snapshot("web", min, last, ms[1], ms[2], cs) :
        min \in {Nil, Some(2)}, last \in {Nil, Some(1600)},
        ms \in {<<<<>>, <<>>>>, <<ResourceTarget, ObjectCurrent>>},
        cs \in SeqsUpTo(Conds, MaxConds)}

(* the snapshots of the dispatch study: metric lists up to MaxMetrics over one     *)
(* entry of each kind and one of a kind the program does not know, condition lists *)
(* up to MaxConds over one condition of each type and one of an unknown type       *)
UnknownMetricType == "ContainerResource"
UnknownPair == MetricPair([Type |-> UnknownMetricType], [Type |-> UnknownMetricType])

KindPairs ==
    {p \in ObjectPairs : p.spec.Object.MetricName = "requests" /\ p.spec.Object.TargetValue = 2500}
    \cup {p \in PodsPairs : p.spec.Pods.MetricName = "latency" /\ p.spec.Pods.TargetAverageValue = 1500}
    \cup {p \in ResourcePairs :
              /\ p.spec.Resource.Name = "cpu"
              /\ p.spec.Resource.TargetAverageUtilization = Some(80)
              /\ p.status.Resource.CurrentAverageValue = 2000}
    \cup {p \in ExternalPairs :
              /\ p.spec.External.MetricName = "requests"
              /\ p.spec.External.TargetAverageValue = Nil
              /\ p.status.External.CurrentValue = 2000}
    \cup {UnknownPair}

KindConds == {c \in Conds : c.Status = ConditionTrue /\ c.Reason # ""}

KindSnapshots ==
    {Snapshot("web", Some(2), Nil,
              [i \in 1..Len(ps) |-> ps[i].spec], [i \in 1..Len(ps) |-> ps[i].status], cs) :
        ps \in SeqsUpTo(KindPairs, MaxMetrics), cs \in SeqsUpTo(KindConds, MaxConds)}

(* the snapshots of the loop study: per name a bare one and a full one *)
PlainSnapshot(n) == Snapshot(n, Nil, Nil, <<>>, <<>>, <<>>)
FullSnapshot(n) ==
    Snapshot(n, Some(2), Some(1600),
             ResourceTarget, ObjectCurrent,
             <<[Type |-> ScalingActive, Status |-> ConditionTrue,
                Reason |-> "ValidMetricFound", Message |-> "ok"]>>)
LoopSnapshots == {PlainSnapshot(n) : n \in HpaNames} \cup {FullSnapshot(n) : n \in HpaNames}

(* the orchestrator returns each (namespace, name) at most once *)
DistinctNames(l) == \A i, j \in 1..Len(l) : i # j => l[i].Name # l[j].Name

HpaLists == {l \in SeqsUpTo(LoopSnapshots, MaxHpas) : DistinctNames(l)}

NamesOf(l) == {l[i].Name : i \in 1..Len(l)}

(* a snapshot of the dispatch study, followed by further autoscalers *)
KindLists ==
    {<<a>> \o SubSeq(<<FullSnapshot("api"), FullSnapshot("db")>>, 1, k) :
        a \in KindSnapshots, k \in {j \in 0..2 : j < MaxHpas}}

----------------------------------------------------------------------------
(* The metrics poll loop: main.go, the second goroutine. *)

Alive == mainpc = "serve"

(* what the metrics loop never touches *)
mframe == UNCHANGED <<flags, lvars, storevars, groupOps, cvars>>

(* GetHpaListV2 returned a list and no error *)
MetricsFetchOK(lists) ==
    /\ Alive /\ mpc = "fetch"
    /\ \E l \in lists : mhpa' = l
    /\ mAttempts' = mAttempts + 1
    /\ mpc' = "reset"
    /\ UNCHANGED <<registry, mi, mErrLines, mseen, mainpc>>
    /\ mframe

(* mutant: the reset is done before the error is looked at *)
MetricsFetchErr_resetsFirst ==
    /\ Alive /\ mpc = "fetch"
    /\ mAttempts < MaxBurst
    /\ mAttempts' = mAttempts + 1
    /\ mErrLines' = Append(mErrLines, "FetchError")
    /\ mpc' = "fetch"
    /\ registry' = ResetAllMetric(registry)
    /\ UNCHANGED <<mhpa, mi, mseen, mainpc>>
    /\ mframe

(* GetHpaListV2 returned an error: log.Errorln(err); continue *)
MetricsFetchErr ==
    /\ Alive /\ mpc = "fetch"
    /\ mAttempts < MaxBurst
    /\ mAttempts' = mAttempts + 1
    /\ mErrLines' = Append(mErrLines, "FetchError")
    /\ mpc' = "fetch"
    /\ UNCHANGED <<registry, mhpa, mi, mseen, mainpc>>
    /\ mframe

(* metrics.ResetAllMetric(), then the range loop starts *)
MetricsReset ==
    /\ Alive /\ mpc = "reset"
    /\ registry' = ResetAllMetric(registry)
    /\ mi' = 1
    /\ mpc' = IF Len(mhpa) = 0 THEN "sleep" ELSE "project"
    /\ UNCHANGED <<mhpa, mAttempts, mErrLines, mseen, mainpc>>
    /\ mframe

(* mutant: the interval sleep is inside the range loop, after each snapshot *)
MetricsProject_sleepsInside ==
    /\ Alive /\ mpc = "project" /\ mi <= Len(mhpa)
    /\ LET a == mhpa[mi]
       IN  \E obs \in {SnapshotObs(a)} : \E done \in {GoodPrefix(obs)} :
           /\ registry' = ObserveAll(registry, done)
           /\ IF done = obs
              THEN /\ mi' = mi + 1
                   /\ mpc' = "sleep"
                   /\ mseen' = mseen \cup {a.Name}
                   /\ UNCHANGED mainpc
              ELSE /\ mainpc' = "panicked"
                   /\ UNCHANGED <<mi, mpc, mseen>>
    /\ UNCHANGED <<mhpa, mAttempts, mErrLines>>
    /\ mframe

(* one iteration of the range loop: every observation of snapshot mhpa[mi] *)
MetricsProject ==
    /\ Alive /\ mpc = "project" /\ mi <= Len(mhpa)
    /\ LET a == mhpa[mi]
       IN  \E obs \in {SnapshotObs(a)} : \E done \in {GoodPrefix(obs)} :
           /\ registry' = ObserveAll(registry, done)
           /\ IF done = obs
              THEN /\ mi' = mi + 1
                   /\ mpc' = IF mi = Len(mhpa) THEN "sleep" ELSE "project"
                   /\ mseen' = mseen \cup {a.Name}
                   /\ UNCHANGED mainpc
              ELSE /\ mainpc' = "panicked"
                   /\ UNCHANGED <<mi, mpc, mseen>>
    /\ UNCHANGED <<mhpa, mAttempts, mErrLines>>
    /\ mframe

(* time.Sleep(MetricsInterval) returns *)
MetricsSleep ==
    /\ Alive /\ mpc = "sleep"
    /\ mpc' = "fetch"
    /\ mAttempts' = 0
    /\ mErrLines' = <<>>
    /\ UNCHANGED <<registry, mhpa, mi, mseen, mainpc>>
    /\ mframe

----------------------------------------------------------------------------
(* The log store (CloudWatch Logs) as the program uses it.  A name is a     *)
(* string, written as the sequence of its character codes; a sequence token *)
(* is the opaque pair <<stream name, sequence number>>.                     *)

cwLogGroup == <<3>>
cwLogStream == <<1, 2>>

GroupNames == {cwLogGroup, cwLogGroup \o <<1>>}
StreamNames == {cwLogStream, cwLogStream \o <<1>>, <<2>>}

IsPrefix(p, n) == Len(p) <= Len(n) /\ SubSeq(n, 1, Len(p)) = p

RECURSIVE LexLess(_, _)
LexLess(a, b) ==
    IF a = <<>> THEN b # <<>>
    ELSE IF b = <<>> THEN FALSE
    ELSE IF Head(a) # Head(b) THEN Head(a) < Head(b)
    ELSE LexLess(Tail(a), Tail(b))

RECURSIVE SortedNames(_)
SortedNames(S) ==
    IF S = {} THEN <<>>
    ELSE LET m == CHOOSE x \in S : \A y \in S : x = y \/ LexLess(x, y)
         IN  <<m>> \o SortedNames(S \ {m})

(* DescribeLogGroups{LogGroupNamePrefix}: the groups whose name begins with the prefix *)
DescribeLogGroups(gs, prefix) == SortedNames({g \in gs : IsPrefix(prefix, g)})

(* DescribeLogStreams{LogGroupName, LogStreamNamePrefix}: the streams of the group  *)
(* whose name begins with the prefix, ordered by name, each with its upload token   *)
DescribeLogStreams(st, prefix) ==
    LET names == SortedNames({n \in DOMAIN st : IsPrefix(prefix, n)})
    IN  [i \in 1..Len(names) |->
            [LogStreamName |-> names[i], UploadSequenceToken |-> st[names[i]]]]

(* DescribeLogStreams fails when the group does not exist *)
DescribeLogStreamsAnswer(gs, group) ==
    IF group \notin gs THEN "ResourceNotFoundException" ELSE "nil"

SeqNo(t) == IF t = Nil THEN 0 ELSE Deref(t)[2]
NextToken(name, t) == Some(<<name, SeqNo(t) + 1>>)

(* what PutLogEvents answers to a request, the store being in state (gs, st) *)
PutLogEventsAnswer(gs, st, req) ==
    IF Len(req.LogEvents) = 0 THEN "InvalidParameter"
    ELSE IF req.LogGroupName \notin gs \/ req.LogStreamName \notin DOMAIN st
    THEN "ResourceNotFoundException"
    ELSE IF req.SequenceToken # st[req.LogStreamName]
    THEN "InvalidSequenceTokenException"
    ELSE "nil"

(* another writer appends to the configured stream and so advances its token *)
OtherWriterPut ==
    /\ cwLogGroup \in groups /\ cwLogStream \in DOMAIN streams
    /\ SeqNo(streams[cwLogStream]) < MaxToken
    /\ streams' = [streams EXCEPT ![cwLogStream] = NextToken(cwLogStream, @)]
    /\ UNCHANGED <<flags, mainpc, mvars, lvars, groups, nCreated, groupOps, cvars>>

(* another writer (a second exporter) creates the configured stream *)
OtherWriterCreate ==
    /\ cwLogGroup \in groups /\ cwLogStream \notin DOMAIN streams
    /\ streams' = [n \in DOMAIN streams \cup {cwLogStream} |->
                      IF n = cwLogStream THEN Nil ELSE streams[n]]
    /\ nCreated' = nCreated + 1
    /\ UNCHANGED <<flags, mainpc, mvars, lvars, groups, groupOps, cvars>>

----------------------------------------------------------------------------
(* The log-shipment loop: main.go, the first goroutine. *)

(* what the log loop never touches *)
lframe == UNCHANGED <<flags, mainpc, mvars, groupOps, cvars>>

(* HpaConditionJsonString: json.Marshal of conditions{Name, Conditions}, the JSON *)
(* object as a record; when Marshal returns an error, the string "{}" (the object *)
(* without keys)                                                                  *)
EmptyObject == [k \in {} |-> ""]
HpaConditionJsonString(a, err) ==
    IF err # "nil" THEN EmptyObject ELSE [name |-> a.Name, conditions |-> a.Conditions]

(* the errors json.Marshal may return for a snapshot: none, or none or an error *)
MarshalOK == {"nil"}
MarshalAny == {"nil", "MarshalerError"}

(* fmt.Println("JSON Marshal error:", err), once per failed Marshal *)
IsError(e) == e # "nil"
MarshalErrorLines(errs) == SelectSeq(errs, IsError)

Clock == {1000, 2000}

(* mutant: the fetched list is kept in a variable both loops use *)
LogFetchOK_sharesList(lists) ==
    /\ Alive /\ lpc = "fetch"
    /\ \E l \in lists : lhpa' = l /\ mhpa' = l
    /\ lAttempts' = lAttempts + 1
    /\ IF flags.LoggingTo = "cwlogs"
       THEN lpc' = "describe" /\ callOps' = <<>> /\ tok' = Nil /\ shipRet' = "running"
       ELSE lpc' = "stdout" /\ UNCHANGED <<callOps, tok, shipRet>>
    /\ UNCHANGED <<lErrLines, stdoutLines, storevars>>
    /\ UNCHANGED <<flags, mainpc, registry, mpc, mi, mAttempts, mErrLines, mseen,
                   groupOps, cvars>>

(* GetHpaListV2 returned a list and no error *)
LogFetchOK(lists) ==
    /\ Alive /\ lpc = "fetch"
    /\ \E l \in lists : lhpa' = l
    /\ lAttempts' = lAttempts + 1
    /\ IF flags.LoggingTo = "cwlogs"
       THEN lpc' = "describe" /\ callOps' = <<>> /\ tok' = Nil /\ shipRet' = "running"
       ELSE lpc' = "stdout" /\ UNCHANGED <<callOps, tok, shipRet>>
    /\ UNCHANGED <<lErrLines, stdoutLines, storevars>>
    /\ lframe

(* GetHpaListV2 returned an error: log.Errorln(err); continue *)
LogFetchErr ==
    /\ Alive /\ lpc = "fetch"
    /\ lAttempts < MaxBurst
    /\ lAttempts' = lAttempts + 1
    /\ lErrLines' = Append(lErrLines, "FetchError")
    /\ lpc' = "fetch"
    /\ UNCHANGED <<lhpa, tok, shipRet, callOps, stdoutLines, storevars>>
    /\ lframe

(* the stdout branch: log.Infoln(HpaConditionJsonString(a)) for every a *)
LogStdout(answers) ==
    /\ Alive /\ lpc = "stdout"
    /\ \E errs \in [1..Len(lhpa) -> answers] :
         stdoutLines' = Concat([i \in 1..Len(lhpa) |->
                                  MarshalErrorLines(<<errs[i]>>)
                                  \o <<HpaConditionJsonString(lhpa[i], errs[i])>>])
    /\ lpc' = "sleep"
    /\ UNCHANGED <<lhpa, lAttempts, lErrLines, tok, shipRet, callOps, storevars>>
    /\ lframe

(* token(): DescribeLogStreams by name prefix; the first stream's token, or *)
(* createStream next when the answer is empty.  The value PutHPAConditionToCWLog *)
(* returns is dropped by its caller, which goes on to its sleep.            *)
ShipDescribe ==
    /\ Alive /\ lpc = "describe"
    /\ \E e \in {"ServiceUnavailable", DescribeLogStreamsAnswer(groups, cwLogGroup)} :
         LET x == IF e = "nil" THEN DescribeLogStreams(streams, cwLogStream) ELSE <<>>
         IN  /\ callOps' = Append(callOps, [op |-> "DescribeLogStreams", err |-> e, out |-> x])
             /\ IF e # "nil"
                THEN shipRet' = e /\ lpc' = "sleep" /\ UNCHANGED tok
                ELSE IF Len(x) = 0
                THEN lpc' = "create" /\ UNCHANGED <<tok, shipRet>>
                ELSE lpc' = "put" /\ tok' = x[1].UploadSequenceToken /\ UNCHANGED shipRet
    /\ UNCHANGED <<lhpa, lAttempts, lErrLines, stdoutLines, storevars>>
    /\ lframe

(* what CreateLogStream answers, the store being in state (gs, st) *)
CreateLogStreamAnswer(gs, st, group, name) ==
    IF group \notin gs THEN "ResourceNotFoundException"
    ELSE IF name \in DOMAIN st THEN "ResourceAlreadyExistsException"
    ELSE "nil"

(* mutant: the error of createStream is not returned and the append is made *)
ShipCreate_ignoresError ==
    /\ Alive /\ lpc = "create"
    /\ \E e \in {"ServiceUnavailable", CreateLogStreamAnswer(groups, streams, cwLogGroup, cwLogStream)} :
         /\ callOps' = Append(callOps, [op |-> "CreateLogStream", err |-> e, out |-> <<>>])
         /\ IF e = "nil"
            THEN /\ streams' = [n \in DOMAIN streams \cup {cwLogStream} |->
                                   IF n = cwLogStream THEN Nil ELSE streams[n]]
                 /\ nCreated' = nCreated + 1
            ELSE UNCHANGED <<streams, nCreated>>
         /\ lpc' = "put"
         /\ UNCHANGED shipRet
    /\ UNCHANGED <<lhpa, lAttempts, lErrLines, tok, stdoutLines, groups>>
    /\ lframe

(* createStream(): CreateLogStream{cwLogGroup, cwLogStream}; token() returns *)
(* a nil token and createStream's error                                      *)
ShipCreate ==
    /\ Alive /\ lpc = "create"
    /\ \E e \in {"ServiceUnavailable", CreateLogStreamAnswer(groups, streams, cwLogGroup, cwLogStream)} :
         /\ callOps' = Append(callOps, [op |-> "CreateLogStream", err |-> e, out |-> <<>>])
         /\ IF e = "nil"
            THEN /\ streams' = [n \in DOMAIN streams \cup {cwLogStream} |->
                                   IF n = cwLogStream THEN Nil ELSE streams[n]]
                 /\ nCreated' = nCreated + 1
                 /\ lpc' = "put"
                 /\ UNCHANGED shipRet
            ELSE /\ shipRet' = e
                 /\ lpc' = "sleep"
                 /\ UNCHANGED <<streams, nCreated>>
    /\ UNCHANGED <<lhpa, lAttempts, lErrLines, tok, stdoutLines, groups>>
    /\ lframe

(* mutant: a snapshot whose serialization fails is left out of the batch *)
PutEvent_dropsFailed(hpa, t, timestamp, errs) ==
    LET ok == {i \in 1..Len(hpa) : errs[i] = "nil"}
        RECURSIVE pick(_)
        pick(i) == IF i > Len(hpa) THEN <<>>
                   ELSE (IF i \in ok
                         THEN <<[Message |-> HpaConditionJsonString(hpa[i], errs[i]),
                                 Timestamp |-> timestamp]>>
                         ELSE <<>>) \o pick(i + 1)
    IN  [LogEvents |-> pick(1),
         LogGroupName |-> cwLogGroup,
         LogStreamName |-> cwLogStream,
         SequenceToken |-> t]

(* the batch of PutHPAConditionToCWLog: one event per snapshot, one timestamp *)
PutEvent(hpa, t, timestamp, errs) ==
    [LogEvents |-> [i \in 1..Len(hpa) |->
                       [Message |-> HpaConditionJsonString(hpa[i], errs[i]),
                        Timestamp |-> timestamp]],
     LogGroupName |-> cwLogGroup,
     LogStreamName |-> cwLogStream,
     SequenceToken |-> t]

(* cwSession.PutLogEvents(putEvent); its error is what the call returns *)
ShipPut(answers) ==
    /\ Alive /\ lpc = "put"
    /\ \E timestamp \in Clock, errs \in [1..Len(lhpa) -> answers] :
         LET req == PutEvent(lhpa, tok, timestamp, errs)
         IN  \E e \in {"ServiceUnavailable", PutLogEventsAnswer(groups, streams, req)} :
               /\ callOps' = Append(callOps, [op |-> "PutLogEvents", err |-> e, out |-> req,
                                              marshal |-> errs])
               /\ stdoutLines' = MarshalErrorLines(errs)
               /\ shipRet' = e
               /\ IF e = "nil"
                  THEN /\ SeqNo(streams[cwLogStream]) < MaxToken
                       /\ streams' = [streams EXCEPT ![cwLogStream] = NextToken(cwLogStream, @)]
                  ELSE UNCHANGED streams
    /\ lpc' = "sleep"
    /\ UNCHANGED <<lhpa, lAttempts, lErrLines, tok, groups, nCreated>>
    /\ lframe

(* time.Sleep(LoggingInterval) returns *)
LogSleep ==
    /\ Alive /\ lpc = "sleep"
    /\ lpc' = "fetch"
    /\ lAttempts' = 0
    /\ lErrLines' = <<>>
    /\ UNCHANGED <<lhpa, tok, shipRet, callOps, stdoutLines, storevars>>
    /\ lframe

----------------------------------------------------------------------------
(* Startup: main() up to the start of the two goroutines. *)

sframe == UNCHANGED <<flags, mvars, lvars, streams, nCreated, cvars>>

(* mutant: the log destination is validated only when condition logging is enabled *)
ValidateFlags_onlyWhenLogging(f) ==
    IF f.ConditionLogging /\ ~(f.LoggingTo = "stdout" \/ f.LoggingTo = "cwlogs")
    THEN "invalid value" ELSE "nil"

ValidateFlags(f) ==
    IF ~(f.LoggingTo = "stdout" \/ f.LoggingTo = "cwlogs") THEN "invalid value" ELSE "nil"

(* e := metrics.ValidateFlags(); panic(e) on error *)
MainValidate ==
    /\ mainpc = "validate"
    /\ mainpc' = IF ValidateFlags(flags) # "nil" THEN "panicked"
                 ELSE IF flags.ConditionLogging THEN "checkgroup" ELSE "spawn"
    /\ UNCHANGED <<groups, groupOps>>
    /\ sframe

(* mutant: a missing group is not created *)
CheckLogGroup_neverCreates(r) == "ok"

(* CheckLogGroup: how it goes on after DescribeLogGroups answered r without error: *)
(* "create" (createLogGroup is called next) or "ok" (it returns nil)               *)
CheckLogGroup(r) == IF Len(r) = 0 THEN "create" ELSE "ok"

(* CheckLogGroup: DescribeLogGroups by name prefix; panic(e) on its error *)
MainCheckLogGroup ==
    /\ mainpc = "checkgroup"
    /\ \E e \in {"ServiceUnavailable", "nil"} :
         LET r == IF e = "nil" THEN DescribeLogGroups(groups, cwLogGroup) ELSE <<>>
         IN  /\ groupOps' = Append(groupOps, [op |-> "DescribeLogGroups", err |-> e, out |-> r])
             /\ mainpc' = IF e # "nil" THEN "panicked"
                          ELSE IF CheckLogGroup(r) = "create" THEN "creategroup"
                          ELSE "spawn"
    /\ UNCHANGED groups
    /\ sframe

(* what CreateLogGroup answers, the store holding the groups gs *)
CreateLogGroupAnswer(gs, group) ==
    IF group \in gs THEN "ResourceAlreadyExistsException" ELSE "nil"

(* createLogGroup(): CreateLogGroup{cwLogGroup}; panic(e) on its error *)
MainCreateLogGroup ==
    /\ mainpc = "creategroup"
    /\ \E e \in {"ServiceUnavailable", CreateLogGroupAnswer(groups, cwLogGroup)} :
         /\ groupOps' = Append(groupOps, [op |-> "CreateLogGroup", err |-> e, out |-> <<>>])
         /\ groups' = IF e = "nil" THEN groups \cup {cwLogGroup} ELSE groups
         /\ mainpc' = IF e = "nil" THEN "spawn" ELSE "panicked"
    /\ sframe

(* the two `go func()` statements; main then serves HTTP for the rest of its life *)
MainSpawn ==
    /\ mainpc = "spawn"
    /\ mainpc' = "serve"
    /\ lpc' = IF flags.ConditionLogging THEN "fetch" ELSE "off"
    /\ mpc' = "fetch"
    /\ UNCHANGED <<flags, registry, mhpa, mi, mAttempts, mErrLines, mseen,
                   lhpa, lAttempts, lErrLines, tok, shipRet, callOps, stdoutLines,
                   storevars, groupOps, cvars>>

----------------------------------------------------------------------------
(* One application of MakeAnnotationCondLabels. *)

CondApply ==
    /\ cpc = "call"
    /\ labelForward' = MakeAnnotationCondLabels(cond)[1]
    /\ labelReverse' = MakeAnnotationCondLabels(cond)[2]
    /\ cpc' = "returned"
    /\ UNCHANGED <<cond, flags, mainpc, mvars, lvars, storevars, groupOps, pvars>>

----------------------------------------------------------------------------
(* One application of the target extractor and of the status extractor of a  *)
(* metric kind, dispatched on the entry's type as the poll loop does.        *)

ExtractSpec(m) ==
    CASE m.Type = ObjectMetricSourceType -> ParseObjectSpec(m.Object)
      [] m.Type = PodsMetricSourceType -> ParsePodsSpec(m.Pods)
      [] m.Type = ResourceMetricSourceType -> ParseResourceSpec(m.Resource)
      [] m.Type = ExternalMetricSourceType -> ParseExternalSpec(m.External)

ExtractStatus(m) ==
    CASE m.Type = ObjectMetricSourceType -> ParseObjectStatus(m.Object)
      [] m.Type = PodsMetricSourceType -> ParsePodsStatus(m.Pods)
      [] m.Type = ResourceMetricSourceType -> ParseResourceStatus(m.Resource)
      [] m.Type = ExternalMetricSourceType -> ParseExternalStatus(m.External)

ParseApply ==
    /\ ppc = "call"
    /\ specRecord' = ExtractSpec(entry.spec)
    /\ statusRecord' = ExtractStatus(entry.status)
    /\ ppc' = "returned"
    /\ UNCHANGED <<entry, flags, mainpc, mvars, lvars, storevars, groupOps,
                   cond, labelForward, labelReverse, cpc>>

----------------------------------------------------------------------------
(* Initial states. *)

Flags == [ConditionLogging : BOOLEAN, LoggingTo : {"stdout", "cwlogs", "syslog"}]
defaultFlags == [ConditionLogging |-> FALSE, LoggingTo |-> "stdout"]

NoLabels == [cond_status |-> "", cond_reason |-> "", cond_message |-> ""]
NoCond == [Type |-> "", Status |-> "", Reason |-> "", Message |-> ""]

InitMetrics ==
    /\ registry = EmptyRegistry /\ mhpa = <<>> /\ mi = 1
    /\ mAttempts = 0 /\ mErrLines = <<>> /\ mseen = {}

InitLog ==
    /\ lhpa = <<>> /\ lAttempts = 0 /\ lErrLines = <<>> /\ tok = Nil
    /\ shipRet = "none" /\ callOps = <<>> /\ stdoutLines = <<>>

NoRecord == commonMetrics("", "", "", 0)
NoMetric == [spec |-> [Type |-> ""], status |-> [Type |-> ""]]

InitParseIdle ==
    /\ entry = NoMetric /\ specRecord = NoRecord /\ statusRecord = NoRecord /\ ppc = "idle"

InitCondIdle ==
    /\ cond = NoCond /\ labelForward = NoLabels /\ labelReverse = NoLabels /\ cpc = "idle"
    /\ InitParseIdle

(* the streams a log group may hold when the program meets it *)
StreamStates ==
    UNION {[S -> {Nil} \cup {Some(<<n, 1>>) : n \in S}] : S \in SUBSET StreamNames}
WellFormedStreams(st) ==
    \A n \in DOMAIN st : st[n] = Nil \/ Deref(st[n])[1] = n

EmptyStreams == [n \in {} |-> Nil]

InitStore(names) ==
    /\ groups \in SUBSET GroupNames
    /\ streams \in {st \in StreamStates : WellFormedStreams(st) /\ DOMAIN st \subseteq names}
    /\ (cwLogGroup \notin groups => streams = EmptyStreams)
    /\ nCreated = 0
    /\ groupOps = <<>>

----------------------------------------------------------------------------
(* Specifications. *)

(* The whole program from the start of main(), over a small fetch universe. *)
TinyLists == {<<>>, <<FullSnapshot("web")>>}

Init ==
    /\ flags \in Flags
    /\ mainpc = "validate" /\ mpc = "off" /\ lpc = "off"
    /\ InitMetrics /\ InitLog /\ InitStore({cwLogStream}) /\ InitCondIdle

Next ==
    \/ MainValidate \/ MainCheckLogGroup \/ MainCreateLogGroup \/ MainSpawn
    \/ MetricsFetchOK(TinyLists) \/ MetricsFetchErr \/ MetricsReset
    \/ MetricsProject \/ MetricsSleep
    \/ LogFetchOK(TinyLists) \/ LogFetchErr \/ LogStdout(MarshalOK)
    \/ ShipDescribe \/ ShipCreate \/ ShipPut(MarshalOK) \/ LogSleep
    \/ OtherWriterPut \/ OtherWriterCreate

Spec == Init /\ [][Next]_vars

(* The metrics poll loop alone, with the default flags, once main() serves. *)
InitPoll ==
    /\ flags = defaultFlags
    /\ mainpc = "serve" /\ mpc = "fetch" /\ lpc = "off"
    /\ InitMetrics /\ InitLog /\ InitCondIdle
    /\ groups = {} /\ streams = EmptyStreams /\ nCreated = 0 /\ groupOps = <<>>

NextPoll ==
    \/ MetricsFetchOK(HpaLists) \/ MetricsFetchErr \/ MetricsReset
    \/ MetricsProject \/ MetricsSleep

SpecPoll == InitPoll /\ [][NextPoll]_vars

(* The same, with the loop's goroutine scheduled between a fetch and its sleep. *)
SpecPollFair ==
    /\ SpecPoll
    /\ WF_vars(MetricsReset)
    /\ WF_vars(MetricsProject)

(* One cycle of the poll loop on one snapshot: the state right after the first *)
(* successful fetch, then reset, projection and sleep.                         *)
InitProj ==
    /\ flags = defaultFlags
    /\ mainpc = "serve" /\ mpc = "reset" /\ lpc = "off"
    /\ registry = EmptyRegistry /\ mi = 1 /\ mAttempts = 1 /\ mErrLines = <<>> /\ mseen = {}
    /\ mhpa \in {<<a>> : a \in RichSnapshots}
    /\ InitLog /\ InitCondIdle
    /\ groups = {} /\ streams = EmptyStreams /\ nCreated = 0 /\ groupOps = <<>>

NextProj == MetricsReset \/ MetricsProject \/ MetricsSleep

SpecProj == InitProj /\ [][NextProj]_vars

(* The log-shipment loop and the log store, with condition logging enabled, *)
(* from the start of main().                                                *)
ShipLists == {l \in HpaLists : NamesOf(l) \subseteq {"web", "api"}}

InitShip ==
    /\ flags \in {f \in Flags : f.ConditionLogging /\ ValidateFlags(f) = "nil"}
    /\ mainpc = "validate" /\ mpc = "off" /\ lpc = "off"
    /\ InitMetrics /\ InitLog /\ InitStore(StreamNames) /\ InitCondIdle

NextShip ==
    \/ MainValidate \/ MainCheckLogGroup \/ MainCreateLogGroup \/ MainSpawn
    \/ LogFetchOK(ShipLists) \/ LogFetchErr \/ LogStdout(MarshalOK)
    \/ ShipDescribe \/ ShipCreate \/ ShipPut(MarshalOK) \/ LogSleep
    \/ OtherWriterPut \/ OtherWriterCreate

SpecShip == InitShip /\ [][NextShip]_vars

(* The ship call of the log-shipment loop, cycle after cycle, once main() serves   *)
(* with condition logging to the log store: the startup check has passed, so some  *)
(* group with the configured name as prefix exists.  json.Marshal may answer with  *)
(* an error.                                                                       *)
BatchLists ==
    {l \in ShipLists :
        /\ \A i \in 1..Len(l) : l[i] = FullSnapshot(l[i].Name)
        /\ Len(l) > 1 => l[1].Name = "web"}

InitBatch ==
    /\ flags = [ConditionLogging |-> TRUE, LoggingTo |-> "cwlogs"]
    /\ mainpc = "serve" /\ mpc = "fetch" /\ lpc = "fetch"
    /\ InitMetrics /\ InitLog /\ InitCondIdle
    /\ InitStore({n \in StreamNames : IsPrefix(cwLogStream, n)})
    /\ groups # {}

NextBatch ==
    \/ LogFetchOK(BatchLists) \/ LogFetchErr
    \/ ShipDescribe \/ ShipCreate \/ ShipPut(MarshalAny) \/ LogSleep
    \/ OtherWriterPut \/ OtherWriterCreate

SpecBatch == InitBatch /\ [][NextBatch]_vars

(* The same, with the loop's goroutine scheduled: its sleep returns, and the fetch *)
(* that follows the failed ones (at most MaxBurst) succeeds.                       *)
SpecBatchFair ==
    /\ SpecBatch
    /\ WF_vars(LogSleep)
    /\ WF_vars(LogFetchOK(BatchLists))

(* MakeAnnotationCondLabels on every condition of the bounded universe. *)
InitCond ==
    /\ flags = defaultFlags
    /\ mainpc = "serve" /\ mpc = "fetch" /\ lpc = "off"
    /\ InitMetrics /\ InitLog
    /\ groups = {} /\ streams = EmptyStreams /\ nCreated = 0 /\ groupOps = <<>>
    /\ cond \in AllConds
    /\ labelForward = NoLabels /\ labelReverse = NoLabels /\ cpc = "call"
    /\ InitParseIdle

NextCond == CondApply

SpecCond == InitCond /\ [][NextCond]_vars

(* One cycle of the poll loop on a list whose first snapshot has metric entries *)
(* of every kind and of an unknown kind, and conditions of every type.          *)
InitKinds ==
    /\ flags = defaultFlags
    /\ mainpc = "serve" /\ mpc = "reset" /\ lpc = "off"
    /\ registry = EmptyRegistry /\ mi = 1 /\ mAttempts = 1 /\ mErrLines = <<>> /\ mseen = {}
    /\ mhpa \in KindLists
    /\ InitLog /\ InitCondIdle
    /\ groups = {} /\ streams = EmptyStreams /\ nCreated = 0 /\ groupOps = <<>>

NextKinds == MetricsReset \/ MetricsProject \/ MetricsSleep

SpecKinds == InitKinds /\ [][NextKinds]_vars

(* The extractors on every matching pair of entries of the bounded universe. *)
InitParse ==
    /\ flags = defaultFlags
    /\ mainpc = "serve" /\ mpc = "fetch" /\ lpc = "off"
    /\ InitMetrics /\ InitLog
    /\ groups = {} /\ streams = EmptyStreams /\ nCreated = 0 /\ groupOps = <<>>
    /\ cond = NoCond /\ labelForward = NoLabels /\ labelReverse = NoLabels /\ cpc = "idle"
    /\ entry \in MetricPairs
    /\ specRecord = NoRecord /\ statusRecord = NoRecord /\ ppc = "call"

NextParse == ParseApply

SpecParse == InitParse /\ [][NextParse]_vars

----------------------------------------------------------------------------
(* Properties. *)

(* the registry a complete repopulation from list l produces *)
RECURSIVE ProjectAll(_, _)
ProjectAll(reg, l) ==
    IF l = <<>> THEN reg ELSE ProjectAll(ProjectSnapshot(reg, Head(l)), Tail(l))
RegistryOf(l) == ProjectAll(EmptyRegistry, l)

Holds(g, l, v) == l \in DOMAIN registry[g] /\ registry[g][l] = v
BaseOf(l) == [k \in baseLabels |-> l[k]]
Series(g) == DOMAIN registry[g]

(* C1: a poll cycle whose fetch fails (it logs the error) leaves all ten gauge     *)
(* collections exactly as they were, and whenever the loop is at its fetch the     *)
(* registry is the one the last successful cycle wrote.                            *)
C1_FailedFetchKeepsRegistry ==
    /\ [][Len(mErrLines') > Len(mErrLines) => registry' = registry]_vars
    /\ [](mpc = "fetch" => registry = RegistryOf(mhpa))

C1_Witness ==
    mpc = "fetch" /\ Len(mErrLines) > 0 /\ registry # EmptyRegistry

(* C2: neither periodic task ever makes two fetch attempts with no interval sleep  *)
(* between them.                                                                   *)
C2_RetryOnlyAfterSleep == mAttempts <= 1 /\ lAttempts <= 1

(* C3: when a successful poll cycle has finished repopulating, every series of     *)
(* every gauge carries the base labels of an autoscaler of the list that cycle     *)
(* fetched; an autoscaler seen earlier and absent from that list has no series.    *)
C3_OnlyFetchedAutoscalers ==
    mpc = "sleep" =>
        \A g \in collectors : \A l \in Series(g) :
            \E i \in 1..Len(mhpa) : BaseOf(l) = BaseLabel(mhpa[i])

C3_Witness ==
    /\ mpc = "sleep" /\ Len(mhpa) > 0
    /\ mseen \ NamesOf(mhpa) # {}
    /\ \A g \in {HpaCurrentPodsNum, HpaTargetMetricsValue, HpaScalingActive} : Series(g) # {}

KnownGauge(c) ==
    CASE c.Type = AbleToScale -> HpaAbleToScale
      [] c.Type = ScalingActive -> HpaScalingActive
      [] c.Type = ScalingLimited -> HpaScalingLimited
      [] OTHER -> ""

Fwd(a, c) == MergeLabels(BaseLabel(a), MakeAnnotationCondLabels(c)[1])
Rev(a, c) == MergeLabels(BaseLabel(a), MakeAnnotationCondLabels(c)[2])

(* a later condition of the same type writes the opposite value on one of the two  *)
(* label sets of condition i                                                       *)
Overwritten(a, i) ==
    \E j \in (i + 1)..Len(a.Conditions) :
        /\ a.Conditions[j].Type = a.Conditions[i].Type
        /\ \/ Rev(a, a.Conditions[j]) = Fwd(a, a.Conditions[i])
           \/ Fwd(a, a.Conditions[j]) = Rev(a, a.Conditions[i])

(* C4 as stated: once a snapshot is projected, every condition of a known type has *)
(* 1.0 at its forward label set and 0.0 at its reverse label set, for any list of  *)
(* conditions.                                                                     *)
C4_EveryConditionForwardOneReverseZero ==
    (mpc = "sleep" /\ Len(mhpa) = 1) =>
        LET a == mhpa[1]
        IN  \A i \in 1..Len(a.Conditions) :
              LET c == a.Conditions[i]
              IN  KnownGauge(c) # "" =>
                    /\ Holds(KnownGauge(c), Fwd(a, c), Float(1))
                    /\ Holds(KnownGauge(c), Rev(a, c), Float(0))

(* C4 amended: the same, for every condition of a known type that is not followed  *)
(* by a condition of the same type whose reverse label set is its forward one or   *)
(* whose forward label set is its reverse one; for such a condition the two values *)
(* are never both 1.0 or both 0.0.                                                 *)
C4_ForwardOneReverseZeroUnlessOverwritten ==
    (mpc = "sleep" /\ Len(mhpa) = 1) =>
        LET a == mhpa[1]
        IN  \A i \in 1..Len(a.Conditions) :
              LET c == a.Conditions[i]
              IN  (KnownGauge(c) # "" /\ ~Overwritten(a, i)) =>
                    /\ Holds(KnownGauge(c), Fwd(a, c), Float(1))
                    /\ Holds(KnownGauge(c), Rev(a, c), Float(0))
                    /\ Fwd(a, c) # Rev(a, c)

C4_Witness ==
    /\ mpc = "sleep" /\ Len(mhpa) = 1
    /\ LET a == mhpa[1]
       IN  /\ Len(a.Conditions) = 2
           /\ a.Conditions[1].Type = ScalingLimited
           /\ a.Conditions[2].Type = ScalingLimited
           /\ a.Conditions[1] # a.Conditions[2]
           /\ ~Overwritten(a, 1)
           /\ Holds(HpaScalingLimited, Fwd(a, a.Conditions[1]), Float(1))

(* C5 as stated: the forward set carries the condition's status, reason and        *)
(* message; the reverse set has empty reason and message and the opposite boolean  *)
(* status, for the statuses True, False and Unknown.                               *)
C5_ReverseIsBooleanOpposite ==
    cpc = "returned" =>
        /\ labelForward = [cond_status |-> cond.Status, cond_reason |-> cond.Reason,
                           cond_message |-> cond.Message]
        /\ DOMAIN labelReverse = annoLabels
        /\ labelReverse.cond_reason = "" /\ labelReverse.cond_message = ""
        /\ {labelForward.cond_status, labelReverse.cond_status}
               = {ConditionTrue, ConditionFalse}

(* C5 amended: the reverse status is False for the status True and True for every  *)
(* other status (False and Unknown alike); forward and reverse status never agree. *)
C5_ReverseIsFalseOnlyForTrue ==
    cpc = "returned" =>
        /\ labelForward = [cond_status |-> cond.Status, cond_reason |-> cond.Reason,
                           cond_message |-> cond.Message]
        /\ DOMAIN labelReverse = annoLabels
        /\ labelReverse.cond_reason = "" /\ labelReverse.cond_message = ""
        /\ labelReverse.cond_status =
               (IF cond.Status = ConditionTrue THEN ConditionFalse ELSE ConditionTrue)
        /\ labelForward.cond_status # labelReverse.cond_status

C5_Witness ==
    /\ cpc = "returned" /\ cond.Status = ConditionUnknown /\ cond.Reason # ""
    /\ labelReverse.cond_status = ConditionTrue

(* C6: projecting one snapshot into a freshly reset registry writes the current,   *)
(* desired and max replica gauges at its base label set, the min-replica gauge iff *)
(* MinReplicas is present, the last-scale gauge iff LastScaleTime is present, and  *)
(* nothing to the metric-value or condition gauges when the snapshot has no metric *)
(* entries and no conditions.                                                      *)
C6_ReplicaGauges ==
    (mpc = "sleep" /\ Len(mhpa) = 1) =>
        LET a == mhpa[1]
            b == BaseLabel(a)
        IN  /\ registry[HpaCurrentPodsNum] = (b :> Float(a.CurrentReplicas))
            /\ registry[HpaDesiredPodsNum] = (b :> Float(a.DesiredReplicas))
            /\ registry[HpaMaxPodsNum] = (b :> Float(a.MaxReplicas))
            /\ registry[HpaMinPodsNum] =
                   (IF a.MinReplicas = Nil THEN EmptyVec ELSE (b :> Float(Deref(a.MinReplicas))))
            /\ registry[HpaLastScaleSecond] =
                   (IF a.LastScaleTime = Nil THEN EmptyVec
                    ELSE (b :> Float(Deref(a.LastScaleTime))))
            /\ (a.Metrics = <<>> => Series(HpaTargetMetricsValue) = {})
            /\ (a.CurrentMetrics = <<>> => Series(HpaCurrentMetricsValue) = {})
            /\ (a.Conditions = <<>> =>
                   \A g \in {HpaAbleToScale, HpaScalingActive, HpaScalingLimited} :
                       Series(g) = {})

C6_Witness ==
    /\ mpc = "sleep" /\ Len(mhpa) = 1
    /\ mhpa[1].MinReplicas = Nil /\ mhpa[1].LastScaleTime # Nil
    /\ mhpa[1].Metrics = <<>> /\ mhpa[1].CurrentMetrics = <<>> /\ mhpa[1].Conditions = <<>>
    /\ Series(HpaMinPodsNum) = {} /\ Series(HpaLastScaleSecond) # {}

(* the ship call that has returned (the loop is at its sleep) issued requests *)
ShipReturned == lpc = "sleep" /\ flags.LoggingTo = "cwlogs" /\ Len(callOps) >= 1
Listed(x, name) == \E i \in 1..Len(x) : x[i].LogStreamName = name
TokenListed(x, name, t) ==
    \E i \in 1..Len(x) : x[i].LogStreamName = name /\ x[i].UploadSequenceToken = t
OpsNamed(ops, name) == {k \in 1..Len(ops) : ops[k].op = name}

(* C7: a ship call that finds the configured stream absent creates it and then     *)
(* appends one batch with no sequence token; a call that finds it present issues   *)
(* no create-stream; the stream is created at most once (nothing deletes it).      *)
C7_AbsentStreamIsCreatedOnce ==
    /\ nCreated <= 1
    /\ ShipReturned /\ callOps[1].err = "nil" =>
         IF Listed(callOps[1].out, cwLogStream)
         THEN OpsNamed(callOps, "CreateLogStream") = {}
         ELSE /\ Len(callOps) >= 2 /\ callOps[2].op = "CreateLogStream"
              /\ callOps[2].err = "nil" =>
                    /\ Len(callOps) = 3 /\ callOps[3].op = "PutLogEvents"
                    /\ callOps[3].out.SequenceToken = Nil

(* C8: every append of a ship call carries the token the store reported, in that   *)
(* call, for the stream named exactly as configured (none when that stream was     *)
(* absent and is new), and never a token of another stream.                        *)
C8_AppendCarriesConfiguredStreamToken ==
    \A k \in OpsNamed(callOps, "PutLogEvents") :
        LET t == callOps[k].out.SequenceToken
            x == callOps[1].out
        IN  Len(callOps[k].out.LogEvents) > 0 =>
            /\ callOps[1].op = "DescribeLogStreams" /\ callOps[1].err = "nil"
            /\ IF Listed(x, cwLogStream) THEN TokenListed(x, cwLogStream, t) ELSE t = Nil
            /\ t # Nil => Deref(t)[1] = cwLogStream

(* C9: when a ship call returns a store error, the log-shipment loop logs it and   *)
(* makes its next attempt only after its sleep.                                    *)
C9_ShipErrorIsLogged ==
    (ShipReturned /\ shipRet # "nil") => \E i \in 1..Len(lErrLines) : lErrLines[i] = shipRet

GroupListed(x, name) == \E i \in 1..Len(x) : x[i] = name
StartupPanic == mainpc = "panicked" /\ mpc = "off"
NothingDone ==
    /\ mpc = "off" /\ lpc = "off" /\ mAttempts = 0 /\ lAttempts = 0
    /\ callOps = <<>> /\ stdoutLines = <<>> /\ registry = EmptyRegistry

C11_InvalidDestinationIsFatal ==
    /\ flags.LoggingTo \notin {"stdout", "cwlogs"} =>
          /\ mainpc \in {"validate", "panicked"}
          /\ NothingDone
          /\ groupOps = <<>>
    /\ (flags.LoggingTo \in {"stdout", "cwlogs"} /\ StartupPanic) =>
          /\ flags.ConditionLogging
          /\ Len(groupOps) >= 1 /\ groupOps[Len(groupOps)].err # "nil"

C11_Witness ==
    /\ flags.LoggingTo = "syslog" /\ ~flags.ConditionLogging
    /\ mainpc = "panicked" /\ NothingDone /\ groupOps = <<>>

(* C13: ResetAllMetric leaves every one of the ten gauge collections without any   *)
(* series (removed, not zeroed), whatever the registry held, and a second reset    *)
(* with no observation in between changes nothing.                                 *)
C13_ResetEmptiesAndIsIdempotent ==
    /\ [][(mpc = "reset" /\ mpc' # "reset") =>
             /\ DOMAIN registry' = collectors
             /\ \A g \in collectors : DOMAIN registry'[g] = {}
             /\ (registry = EmptyRegistry => registry' = registry)]_vars
    /\ []((mpc = "project" /\ mi = 1) =>
             /\ Cardinality(collectors) = 10
             /\ \A g \in collectors : Series(g) = {}
             /\ ResetAllMetric(registry) = registry)

C13_Witness ==
    /\ mpc = "project" /\ mi = 1 /\ mseen # {}
    /\ \A g \in collectors : Series(g) = {}

(* C14: for each of the four metric kinds, the target extractor and the status     *)
(* extractor applied to entries with equal underlying fields return equal records, *)
(* and a quantity of q milli-units is returned as q/1000 (q, in milli-units).      *)
C14_SpecAndStatusExtractorsAgree ==
    ppc = "returned" =>
        /\ specRecord = statusRecord
        /\ entry.spec.Type = ObjectMetricSourceType =>
              /\ specRecord.Value = entry.spec.Object.TargetValue
              /\ statusRecord.Value = entry.status.Object.CurrentValue
        /\ entry.spec.Type = PodsMetricSourceType =>
              /\ specRecord.Value = entry.spec.Pods.TargetAverageValue
              /\ statusRecord.Value = entry.status.Pods.CurrentAverageValue
        /\ (entry.spec.Type = ResourceMetricSourceType
               /\ entry.spec.Resource.TargetAverageUtilization = Nil) =>
              statusRecord.Value = entry.status.Resource.CurrentAverageValue
        /\ (entry.spec.Type = ExternalMetricSourceType
               /\ entry.spec.External.TargetAverageValue # Nil) =>
              statusRecord.Value = Deref(entry.status.External.CurrentAverageValue)

C14_Witness ==
    /\ ppc = "returned" /\ entry.spec.Type = ExternalMetricSourceType
    /\ entry.status.External.CurrentAverageValue = Some(1500)
    /\ entry.status.External.CurrentValue = 2000
    /\ specRecord = statusRecord /\ specRecord.Value = 1500

(* C15: a Resource entry gives kind "Resource", metric name "-" and the            *)
(* utilization percentage unscaled when present (80 gives 80), else the average    *)
(* value over 1000 (1500m gives 1.5); an External entry gives kind "External",     *)
(* name "-" and the average value over 1000 when present, else the plain value     *)
(* over 1000 (2000m gives 2); target and status extractor alike.  Values are in    *)
(* milli-units: 80 is 80000, 1.5 is 1500, 2 is 2000.                               *)
C15_ResourceAndExternalFieldSelection ==
    ppc = "returned" =>
        /\ entry.spec.Type = ResourceMetricSourceType =>
              LET r == entry.spec.Resource
                  v == IF r.TargetAverageUtilization # Nil
                       THEN Deref(r.TargetAverageUtilization) * 1000
                       ELSE Deref(r.TargetAverageValue)
                  w == [Kind |-> "Resource", Name |-> r.Name, MetricName |-> "-", Value |-> v]
              IN  specRecord = w /\ statusRecord = w
        /\ entry.spec.Type = ExternalMetricSourceType =>
              LET x == entry.spec.External
                  v == IF x.TargetAverageValue # Nil
                       THEN Deref(x.TargetAverageValue)
                       ELSE Deref(x.TargetValue)
                  w == [Kind |-> "External", Name |-> "-", MetricName |-> x.MetricName,
                        Value |-> v]
              IN  specRecord = w /\ statusRecord = w

C15_Witness ==
    /\ ppc = "returned" /\ entry.spec.Type = ResourceMetricSourceType
    /\ entry.spec.Resource.TargetAverageUtilization = Some(80)
    /\ specRecord.Value = 80000 /\ statusRecord.Value = 80000
    /\ specRecord.MetricName = "-"

(* C12: every series of a gauge is keyed by exactly the label keys declared for    *)
(* it (five base keys; base and three metric keys; base and three condition keys), *)
(* and no observation of the poll loop is rejected for a missing or an extra key,  *)
(* for every metric kind and every condition type.                                 *)
C12_SeriesCarryDeclaredKeys ==
    LET base == {"hpa_name", "hpa_namespace", "ref_kind", "ref_name", "ref_apiversion"}
        declared(g) ==
            IF g \in {HpaCurrentMetricsValue, HpaTargetMetricsValue}
            THEN base \cup {"metric_kind", "metric_name", "metric_metricname"}
            ELSE IF g \in {HpaAbleToScale, HpaScalingActive, HpaScalingLimited}
            THEN base \cup {"cond_status", "cond_reason", "cond_message"}
            ELSE base
    IN  /\ mainpc # "panicked"
        /\ \A g \in collectors : \A l \in Series(g) : DOMAIN l = declared(g)

C12_Witness ==
    /\ mpc = "sleep" /\ mainpc = "serve"
    /\ \E l \in Series(HpaTargetMetricsValue) : l.metric_kind = "Pod"
    /\ \E l \in Series(HpaCurrentMetricsValue) : l.metric_kind = "External"
    /\ Series(HpaAbleToScale) # {} /\ Series(HpaScalingLimited) # {}
    /\ Series(HpaMinPodsNum) # {}

(* the snapshot without its entries of an unknown kind and conditions of an        *)
(* unknown type                                                                    *)
KnownMetric(m) == m.Type \in KnownMetricTypes
KnownCond(c) == c.Type \in {AbleToScale, ScalingActive, ScalingLimited}
StripSnapshot(a) ==
    [a EXCEPT !.Metrics = SelectSeq(@, KnownMetric),
              !.CurrentMetrics = SelectSeq(@, KnownMetric),
              !.Conditions = SelectSeq(@, KnownCond)]
StripList(l) == [i \in 1..Len(l) |-> StripSnapshot(l[i])]

(* C16: a metric entry of an unknown kind and a condition of an unknown type cause *)
(* no registry write and no error and do not stop the projection: the registry is  *)
(* at every point of the cycle the one the same list without those entries gives,  *)
(* and every snapshot of the list is projected.                                    *)
C16_UnknownKindsAreSkipped ==
    /\ mainpc = "serve" /\ mErrLines = <<>>
    /\ mpc \in {"project", "sleep", "fetch"} =>
          LET done == IF mpc = "project" THEN SubSeq(mhpa, 1, mi - 1) ELSE mhpa
          IN  /\ registry = RegistryOf(StripList(done))
              /\ mseen = NamesOf(done)
              /\ \A i \in 1..Len(done) :
                    /\ BaseLabel(done[i]) \in Series(HpaMaxPodsNum)
                    /\ \A j \in 1..Len(done[i].Metrics) :
                          KnownMetric(done[i].Metrics[j]) =>
                              \E l \in Series(HpaTargetMetricsValue) :
                                  /\ BaseOf(l) = BaseLabel(done[i])
                                  /\ l.metric_kind = ExtractSpec(done[i].Metrics[j]).Kind
                    /\ \A j \in 1..Len(done[i].CurrentMetrics) :
                          KnownMetric(done[i].CurrentMetrics[j]) =>
                              \E l \in Series(HpaCurrentMetricsValue) :
                                  /\ BaseOf(l) = BaseLabel(done[i])
                                  /\ l.metric_kind = ExtractStatus(done[i].CurrentMetrics[j]).Kind
                    /\ \A j \in 1..Len(done[i].Conditions) :
                          KnownCond(done[i].Conditions[j]) =>
                              Fwd(done[i], done[i].Conditions[j])
                                  \in Series(KnownGauge(done[i].Conditions[j]))

C16_Witness ==
    /\ mpc = "sleep" /\ Len(mhpa) = 2
    /\ LET a == mhpa[1]
       IN  /\ Len(a.Metrics) = 2 /\ Len(a.Conditions) = 2
           /\ ~KnownMetric(a.Metrics[1]) /\ a.Metrics[2].Type = ExternalMetricSourceType
           /\ ~KnownCond(a.Conditions[1]) /\ a.Conditions[2].Type = AbleToScale
           /\ \E l \in Series(HpaTargetMetricsValue) :
                 BaseOf(l) = BaseLabel(a) /\ l.metric_kind = "External"
           /\ \E l \in Series(HpaCurrentMetricsValue) : BaseOf(l) = BaseLabel(a)
           /\ \E l \in Series(HpaAbleToScale) : BaseOf(l) = BaseLabel(a)
           /\ BaseLabel(mhpa[2]) \in Series(HpaCurrentPodsNum)

Puts == OpsNamed(callOps, "PutLogEvents")
ReachedAppend ==
    /\ ShipReturned
    /\ callOps[1].err = "nil"
    /\ (callOps[1].out = <<>> => Len(callOps) >= 2 /\ callOps[2].err = "nil")

(* C17: a ship call that reaches the append step issues exactly one append, the    *)
(* last request of the call; its batch holds one record per fetched snapshot, in   *)
(* list order, all with the one timestamp of the call; a snapshot whose            *)
(* serialization failed contributes the record "{}" and the others their own.      *)
C17_OneBatchOneRecordPerSnapshot ==
    /\ Cardinality(Puts) <= 1
    /\ ReachedAppend => Puts = {Len(callOps)}
    /\ \A k \in Puts :
          LET req == callOps[k].out
              errs == callOps[k].marshal
          IN  /\ Len(req.LogEvents) = Len(lhpa)
              /\ \A i \in 1..Len(lhpa) :
                    /\ req.LogEvents[i].Timestamp = req.LogEvents[1].Timestamp
                    /\ req.LogEvents[i].Timestamp \in Clock
                    /\ req.LogEvents[i].Message =
                          (IF errs[i] = "nil"
                           THEN [name |-> lhpa[i].Name, conditions |-> lhpa[i].Conditions]
                           ELSE EmptyObject)

C17_Witness ==
    /\ ReachedAppend /\ Len(lhpa) = 2 /\ shipRet = "nil"
    /\ callOps[Len(callOps)].marshal = <<"MarshalerError", "nil">>
    /\ callOps[Len(callOps)].out.LogEvents[1].Message = EmptyObject
    /\ callOps[Len(callOps)].out.LogEvents[2].Message.name = lhpa[2].Name

Creates == OpsNamed(callOps, "CreateLogStream")
TokenFailed ==
    \E k \in 1..Len(callOps) :
        callOps[k].op \in {"DescribeLogStreams", "CreateLogStream"} /\ callOps[k].err # "nil"

(* C18: in one ship call the stream is created at most once, and only after the    *)
(* store reported the configured stream absent; when the describe-stream query or  *)
(* the create-stream request fails, the call returns that error and issues no      *)
(* append; the process goes on, the loop sleeps and, scheduled, starts a later     *)
(* cycle with a new fetch.                                                         *)
C18_FailedTokenReturnsWithoutAppend ==
    /\ [](/\ Cardinality(Creates) <= 1
          /\ \A k \in Creates :
                /\ k = 2 /\ callOps[1].op = "DescribeLogStreams" /\ callOps[1].err = "nil"
                /\ ~Listed(callOps[1].out, cwLogStream)
          /\ TokenFailed =>
                /\ Puts = {}
                /\ callOps[Len(callOps)].err # "nil"
                /\ shipRet = callOps[Len(callOps)].err
                /\ lpc \in {"sleep", "fetch"}
          /\ mainpc = "serve" /\ lpc # "off")
    /\ (TokenFailed ~> (lpc = "describe" /\ callOps = <<>> /\ lAttempts > 0))

C18_Witness ==
    /\ lpc = "sleep" /\ Len(callOps) = 2
    /\ callOps[2].op = "CreateLogStream"
    /\ callOps[2].err = "ResourceAlreadyExistsException"
    /\ shipRet = "ResourceAlreadyExistsException" /\ Puts = {}

InWindow == mpc \in {"reset", "project"}

(* C19: the poll loop resets only after a successful fetch; from the reset to the  *)
(* end of the repopulation of that cycle it makes no fetch and does not sleep, so  *)
(* outside that window the registry is the complete projection of the last fetched *)
(* list; and, the loop being scheduled, every reset is followed by the complete    *)
(* repopulation from the list fetched in its cycle.                                *)
C19_ResetWindowIsClosedByRepopulation ==
    /\ [][(mpc' = "reset" /\ mpc # "reset") =>
             /\ mpc = "fetch" /\ mAttempts' = mAttempts + 1
             /\ mErrLines' = mErrLines /\ registry' = registry]_vars
    /\ [][registry' # registry => InWindow]_vars
    /\ [][InWindow =>
             /\ mAttempts' = mAttempts /\ mhpa' = mhpa /\ mErrLines' = mErrLines
             /\ mpc' \in {"reset", "project", "sleep"}
             /\ mpc' = "sleep" => registry' = RegistryOf(mhpa)]_vars
    /\ [](~InWindow => registry = RegistryOf(mhpa))
    /\ (mpc = "reset" ~> mpc = "sleep")

C19_Witness ==
    /\ mpc = "project" /\ mi = 2 /\ Len(mhpa) = 2 /\ mseen \ NamesOf(mhpa) # {}
    /\ registry # EmptyRegistry /\ registry # RegistryOf(mhpa)
    /\ BaseLabel(mhpa[2]) \notin Series(HpaCurrentPodsNum)

LoopsRun == mainpc = "serve"

(* C20: the two loops share no mutable state.  A step of the log-shipment loop     *)
(* changes nothing of the metrics loop and never the registry; a step of the       *)
(* metrics loop makes no log-store request and writes no condition line; the       *)
(* registry a metrics cycle leaves is the projection of the list that cycle        *)
(* fetched, and the batch or the lines of a log cycle are those of the list that   *)
(* cycle fetched; with condition logging disabled there is never a log-store       *)
(* request nor a condition line.                                                   *)
C20_LoopsShareNoState ==
    /\ [][(LoopsRun /\ lvars' # lvars) => (mvars' = mvars /\ groupOps' = groupOps)]_vars
    /\ [][(LoopsRun /\ mvars' # mvars) =>
             (lvars' = lvars /\ storevars' = storevars /\ groupOps' = groupOps)]_vars
    /\ []((LoopsRun /\ mpc \in {"fetch", "sleep"}) => registry = RegistryOf(mhpa))
    /\ [](\A k \in Puts :
             /\ Len(callOps[k].out.LogEvents) = Len(lhpa)
             /\ \A i \in 1..Len(lhpa) :
                   callOps[k].out.LogEvents[i].Message =
                       [name |-> lhpa[i].Name, conditions |-> lhpa[i].Conditions])
    /\ []((lpc = "sleep" /\ flags.LoggingTo = "stdout") =>
             stdoutLines = [i \in 1..Len(lhpa) |->
                               [name |-> lhpa[i].Name, conditions |-> lhpa[i].Conditions]])
    /\ []((~flags.ConditionLogging) =>
             /\ lpc = "off" /\ lAttempts = 0
             /\ callOps = <<>> /\ groupOps = <<>> /\ stdoutLines = <<>>)

C20_Witness ==
    /\ flags.ConditionLogging /\ flags.LoggingTo = "cwlogs"
    /\ ShipReturned /\ Puts # {} /\ shipRet = "nil" /\ Len(lhpa) = 1
    /\ mpc = "sleep" /\ mhpa = <<>> /\ mseen # {} /\ registry = EmptyRegistry

====
